---- MODULE Spec2Model ----
(***************************************************************************)
(* TraderLab: the order engine (OrderHandler), the portfolio and cash      *)
(* ledger held by MainWindow, the Trade Simulator tab and the order        *)
(* preview dialog (Spec, SpecOrders); the payoff simulator window with its *)
(* update timer and curve cache (SpecPayoff, and SpecPayoffLive with the   *)
(* event loop's fairness); the pricing functions black_scholes and         *)
(* calculate_greeks on their own (SpecPricing).                            *)
(*                                                                         *)
(* Money is modelled in whole dollars (the code uses floats); every price  *)
(* and quantity drawn below is an integer, so float rounding plays no part.*)
(* Optional dictionary keys (limit_price, buy_price) are sets with at most *)
(* one element: {} is "key absent".                                        *)
(***************************************************************************)
EXTENDS Integers, Sequences, FiniteSets, TLC

\* ---------------------------------------------------------------- bounds
\* Number of OrderHandler calls in one run of SpecOrders.
MaxCalls == 3
\* Number of order-placing UI events (confirmed previews, Close Selected)
\* in one run of Spec.
MaxOps == 4

\* Slider changes in one run of SpecPayoff.
MaxChanges == 2
\* Milliseconds that pass in one step of the clock.
Tick == 50

\* ------------------------------------------------------ program constants
\* self.update_timer.start(150)
DebounceMs == 150
\* np.linspace(max(0, strike - 50), strike + 50, 100)
GridPoints == 100
HalfRange == 50
\* MainWindow.cash_balance = 100000.0
InitialCash == 100000
\* multiplier = 100 if is_option else 1
OptionMultiplier == 100
StockMultiplier == 1
\* low_liquidity = vol < 10 or oi < 50
MinVolume == 10
MinOpenInterest == 50

\* ------------------------------------------------------------ input sets
\* Prices the market-data provider may report; 0 is its failure sentinel.
Prices == {0, 100, 101}
\* (volume, open interest) pairs around the liquidity thresholds; <<0, 0>>
\* is what the provider reports together with the failure sentinel.
Liquidity == {<<0, 0>>, <<9, 50>>, <<10, 49>>, <<10, 50>>}
\* _get_current_option_data returns price, bid, ask, vol, oi
OptionQuotes == {[price |-> p, vol |-> l[1], oi |-> l[2]] : p \in Prices, l \in Liquidity}
\* _get_current_stock_data returns price, bid, ask, vol (no open interest)
StockQuotes == [price : Prices, vol : {9, 10}, oi : {0}]
\* The answer to the low-liquidity question box.
Replies == {"Yes", "No"}
\* Share quantities a caller of OrderHandler may put in a trade dictionary.
Quantities == {-1, 0, 1, 10}
\* What the user may type: ticker, quantity and limit-price fields.
TickerTexts == {"", "AAPL"}
QtyTexts == {"", "0", "1", "1000"}
LimitTexts == {"", "abc", "0", "-5", "7"}
\* Quotes place_buy_order and close_position fetch in the UI.
UIQuotes == [price : {0, 100}, vol : {10}, oi : {0}]
\* Quotes buy_stock fetches for the preview: the market moves between the
\* preview and the order, so a previewed price is never the order's.
PreviewQuotes == [price : {0, 99}, vol : {10}, oi : {0}]

\* A trade dictionary as handed to place_buy_order.
\*   kind      "option" when 'strike' is present and not None, else "stock"
\*   qty_form  "int", "missing" (no 'quantity' key) or "bad" (not a number)
\*   expiry    "none" (no key), "str" or "date"
Trades ==
    [kind : {"stock"}, qty_form : {"int"}, quantity : Quantities,
     expiry : {"none"}, limit_price : {{}}, buy_price : {{}}]
    \cup [kind : {"stock"}, qty_form : {"missing", "bad"}, quantity : {0},
          expiry : {"none"}, limit_price : {{}}, buy_price : {{}}]
    \cup [kind : {"option"}, qty_form : {"int"}, quantity : {1, 10},
          expiry : {"str", "date"}, limit_price : {{}}, buy_price : {{}}]

\* ------------------------------------------------------------ OrderHandler
is_option(trade) == trade.kind = "option"

\* trade.get("quantity", 0)
quantity_of(trade) == IF trade.qty_form = "missing" THEN 0 ELSE trade.quantity

multiplier_wrong(trade) == StockMultiplier
multiplier(trade) == IF is_option(trade) THEN OptionMultiplier ELSE StockMultiplier

\* The liquidity test with the thresholds themselves counted as low.
low_liquidity_inclusive(vol, oi) == vol <= MinVolume \/ oi <= MinOpenInterest
\* low_liquidity = vol < 10 or oi < 50
low_liquidity(vol, oi) == vol < MinVolume \/ oi < MinOpenInterest

declined_ignored(reply) == FALSE
declined(reply) == reply = "No"

insufficient_funds_strict(cash, cost) == cash <= cost
insufficient_funds(cash, cost) == cash < cost

\* self._parse_expiry(trade['expiry']): a string becomes a date
parse_expiry(expiry) == IF expiry = "str" THEN "date" ELSE expiry

\* The outcome of one OrderHandler call.
Outcome(ok, reason, prompted, cash, port) ==
    [ok |-> ok, reason |-> reason, prompted |-> prompted, cash |-> cash, portfolio |-> port]

\* trade[...] = price; trade['expiry'] = parsed; cash_balance -= cost; portfolio.append(trade)
commit_buy_no_append(cash, port, trade, price, cost, prompted) ==
    Outcome(TRUE, "Executed", prompted, cash - cost, port)
commit_buy(cash, port, trade, price, cost, prompted) ==
    Outcome(TRUE, "Executed", prompted, cash - cost,
            Append(port, [trade EXCEPT !.buy_price = {price},
                                       !.expiry = parse_expiry(trade.expiry)]))

\* place_buy_order that executes at the limit price when the trade has one.
place_buy_order_at_limit(cash, port, trade, quote, reply) ==
    LET price == IF trade.limit_price = {} THEN quote.price
                 ELSE CHOOSE x \in trade.limit_price : TRUE
        cost == quantity_of(trade) * multiplier(trade) * price
    IN  IF quote.price <= 0
        THEN Outcome(FALSE, "PriceUnavailable", FALSE, cash, port)
        ELSE IF insufficient_funds(cash, cost)
        THEN Outcome(FALSE, "InsufficientFunds", FALSE, cash, port)
        ELSE commit_buy(cash, port, trade, price, cost, FALSE)

place_buy_order(cash, port, trade, quote, reply) ==
    LET price == quote.price
        prompt == is_option(trade) /\ low_liquidity(quote.vol, quote.oi)
        cost == quantity_of(trade) * multiplier(trade) * price
    IN  IF price <= 0
        THEN Outcome(FALSE, "PriceUnavailable", FALSE, cash, port)
        ELSE IF prompt /\ declined(reply)
        THEN Outcome(FALSE, "UserCancelled", TRUE, cash, port)
        ELSE IF trade.qty_form = "bad"
        THEN Outcome(FALSE, "Unexpected", prompt, cash, port)
        ELSE IF insufficient_funds(cash, cost)
        THEN Outcome(FALSE, "InsufficientFunds", prompt, cash, port)
        ELSE commit_buy(cash, port, trade, price, cost, prompt)


\* portfolio.remove(trade): deletes the first element equal to trade
remove_first(port, trade) ==
    LET i == CHOOSE k \in 1..Len(port) :
                 port[k] = trade /\ \A j \in 1..(k - 1) : port[j] # trade
    IN  SubSeq(port, 1, i - 1) \o SubSeq(port, i + 1, Len(port))

\* cash_balance += proceeds; if trade in portfolio: portfolio.remove(trade)
commit_close_no_remove(cash, port, trade, proceeds, prompted) ==
    Outcome(TRUE, "Executed", prompted, cash + proceeds, port)
commit_close(cash, port, trade, proceeds, prompted) ==
    Outcome(TRUE, "Executed", prompted, cash + proceeds,
            IF \E k \in 1..Len(port) : port[k] = trade
            THEN remove_first(port, trade) ELSE port)

close_position(cash, port, trade, quote, reply) ==
    LET sell_price == quote.price
        prompt == is_option(trade) /\ low_liquidity(quote.vol, quote.oi)
        proceeds == quantity_of(trade) * multiplier(trade) * sell_price
    IN  IF prompt /\ declined(reply)
        THEN Outcome(FALSE, "UserCancelled", TRUE, cash, port)
        ELSE IF sell_price <= 0
        THEN Outcome(FALSE, "PriceUnavailable", prompt, cash, port)
        ELSE commit_close(cash, port, trade, proceeds, prompt)

\* --------------------------------------------------------- TradeSimulatorTab
\* load_portfolio: fills the table from the portfolio, turns string expiries
\* into dates, and ends with parent_window.cash_balance = self.cash_balance.
load_portfolio(tab_cash_balance, cash, port) ==
    [cash |-> tab_cash_balance,
     portfolio |-> [i \in 1..Len(port) |->
                      [port[i] EXCEPT !.expiry = parse_expiry(port[i].expiry)]],
     rows |-> Len(port)]

\* The rows in ascending order, as sorted() without reverse=True gives them.
RECURSIVE sorted_ascending(_)
sorted_ascending(S) ==
    IF S = {} THEN <<>>
    ELSE LET m == CHOOSE x \in S : \A y \in S : x <= y
         IN  <<m>> \o sorted_ascending(S \ {m})

\* sorted(selected_rows, reverse=True)
RECURSIVE sorted_reverse(_)
sorted_reverse(S) ==
    IF S = {} THEN <<>>
    ELSE LET m == CHOOSE x \in S : \A y \in S : y <= x
         IN  <<m>> \o sorted_reverse(S \ {m})

\* One OrderHandler call as the log keeps it. The reply is kept only when
\* the question box was shown.
Call(op, row, trade, quote, reply, cash, port, out) ==
    [op |-> op, row |-> row, trade |-> trade, quote |-> quote,
     reply |-> IF out.prompted THEN reply ELSE "none",
     ok |-> out.ok, reason |-> out.reason, prompted |-> out.prompted,
     cash_before |-> cash, cash_after |-> out.cash,
     portfolio_before |-> port, portfolio_after |-> out.portfolio]

\* The loop of close_selected over the rows, highest first.
RECURSIVE close_rows(_, _, _, _, _)
close_rows(rows, cash, port, inp, log) ==
    IF rows = <<>> THEN [cash |-> cash, portfolio |-> port, calls |-> log]
    ELSE LET row == Head(rows)
         IN  IF 0 <= row /\ row < Len(port)
             THEN LET trade == port[row + 1]
                      out == close_position(cash, port, trade, inp[row].quote, inp[row].reply)
                  IN  close_rows(Tail(rows), out.cash, out.portfolio, inp,
                                 Append(log, Call("close", row, trade, inp[row].quote,
                                                  inp[row].reply, cash, port, out)))
             ELSE close_rows(Tail(rows), cash, port, inp, log)

\* del portfolio[row] for each selected row, highest first
RECURSIVE remove_rows(_, _)
remove_rows(rows, port) ==
    IF rows = <<>> THEN port
    ELSE LET row == Head(rows)
         IN  IF 0 <= row /\ row < Len(port)
             THEN remove_rows(Tail(rows), SubSeq(port, 1, row) \o SubSeq(port, row + 2, Len(port)))
             ELSE remove_rows(Tail(rows), port)

\* -------------------------------------------------------- OrderPreviewDialog
\* int(text): the value, or ValueError
int_ok(text) == text \in {"0", "-1", "1", "10", "1000"}
int_val(text) ==
    CASE text = "0" -> 0 [] text = "-1" -> 0 - 1 [] text = "1" -> 1
      [] text = "10" -> 10 [] text = "1000" -> 1000 [] OTHER -> 0
\* str(qty)
str_int(n) ==
    CASE n = 0 -> "0" [] n = 0 - 1 -> "-1" [] n = 1 -> "1"
      [] n = 10 -> "10" [] n = 1000 -> "1000" [] OTHER -> ""
\* float(text): the value, or ValueError
float_ok(text) == text \in {"0", "-5", "7"}
float_val(text) ==
    CASE text = "0" -> 0 [] text = "-5" -> 0 - 5 [] text = "7" -> 7 [] OTHER -> 0

\* qty = int(text); if qty <= 0: raise ValueError
qty_valid(text) == int_ok(text) /\ int_val(text) > 0

ClosedDialog ==
    [open |-> FALSE, market_price |-> 0, quantity_text |-> "", limit_text |-> "",
     limit_price |-> {}]

\* update_total_cost: on ValueError only the label changes and
\* self.limit_price keeps its earlier value.
update_total_cost(d) ==
    IF ~qty_valid(d.quantity_text) THEN d
    ELSE IF d.limit_text # "" /\ (~float_ok(d.limit_text) \/ float_val(d.limit_text) <= 0)
    THEN d
    ELSE [d EXCEPT !.limit_price =
                       IF d.limit_text # "" THEN {float_val(d.limit_text)} ELSE {}]

\* get_edited_trade: None (valid = FALSE) when the quantity is not a
\* positive integer; limit_price is copied when it is not None.
get_edited_trade(d) ==
    [valid |-> qty_valid(d.quantity_text),
     trade |-> [kind |-> "stock", qty_form |-> "int",
                quantity |-> int_val(d.quantity_text), expiry |-> "none",
                limit_price |-> d.limit_price, buy_price |-> {}]]

\* quantity x multiplier x price of an order, for the books kept beside the program
order_value(trade, quote) ==
    quantity_of(trade) * (IF trade.kind = "option" THEN 100 ELSE 1) * quote.price

\* ------------------------------------------------------------ option_pricing
\* A Python float as the pricing functions see it. Finite arguments are whole
\* numbers in the caller's units (a price in GridSteps-ths of a dollar, t in
\* days, i.e. 1/365 year); the functions branch on their sign and their
\* finiteness only. Big(s) is a finite float next to the largest one
\* (s * 1.7e308): its square, its exponential and Big(1) - Big(-1) overflow.
Fin(n) == [cls |-> "fin", v |-> n]
Big(s) == [cls |-> "big", v |-> s]
NaN == [cls |-> "nan", v |-> 0]
PosInf == [cls |-> "inf", v |-> 1]
NegInf == [cls |-> "inf", v |-> 0 - 1]

\* np.isfinite
isfinite(x) == x.cls \in {"fin", "big"}

\* A returned number: the whole number v, plus, when the closed formula was
\* evaluated, the formula and its arguments in "of".
Exact(n) == [cls |-> "fin", v |-> n, of |-> <<>>]
Formula(name, S, K, t, r, sigma, option_type, q) ==
    [cls |-> "fin", v |-> 0, of |-> <<name, S, K, t, r, sigma, option_type, q>>]

Returned(value) == [raised |-> "none", value |-> value]
Raised(exception) == [raised |-> exception, value |-> Exact(0)]

\* The t <= 0 branch with max(0, S - K) for both kinds.
intrinsic_call_only(S, K, option_type) ==
    IF S.v - K.v > 0 THEN Exact(S.v - K.v) ELSE Exact(0)

\* max(0, S - K) for a Call, max(0, K - S) otherwise
intrinsic(S, K, option_type) ==
    IF option_type = "Call"
    THEN (IF S.v - K.v > 0 THEN Exact(S.v - K.v) ELSE Exact(0))
    ELSE (IF K.v - S.v > 0 THEN Exact(K.v - S.v) ELSE Exact(0))

\* How the evaluation of d1 and d2 ends, in Python's order of evaluation:
\*   S / K                 ZeroDivisionError when K = 0
\*   math.log(S / K)       ValueError when S / K <= 0
\*   sigma ** 2            OverflowError when the square exceeds the floats
\*   / (sigma * sqrt(t))   ZeroDivisionError when sigma = 0
\*   r - q                 overflows to +-inf for Big(1) - Big(-1): d1 is inf
d1_d2(S, K, t, r, sigma, q) ==
    IF K.v = 0 THEN "ZeroDivisionError"
    ELSE IF (S.v > 0 /\ K.v < 0) \/ (S.v < 0 /\ K.v > 0) \/ S.v = 0 THEN "ValueError"
    ELSE IF sigma.cls = "big" THEN "OverflowError"
    ELSE IF sigma.v = 0 THEN "ZeroDivisionError"
    ELSE IF r.cls = "big" /\ q.cls = "big" /\ r.v # q.v THEN "nonfinite"
    ELSE "finite"

\* math.exp(-x * t) for t > 0 raises OverflowError when x is Big(-1).
exp_overflows(x) == x.cls = "big" /\ x.v < 0

\* except (ValueError, ZeroDivisionError): every other exception leaves the
\* function.
caught(exception) == exception \in {"ValueError", "ZeroDivisionError"}

black_scholes(S, K, t, r, sigma, option_type, q) ==
    IF ~(isfinite(S) /\ isfinite(K) /\ isfinite(t) /\ isfinite(r)
            /\ isfinite(sigma) /\ isfinite(q))
    THEN Returned(Exact(0))
    ELSE IF t.v <= 0 THEN Returned(intrinsic(S, K, option_type))
    ELSE LET d == d1_d2(S, K, t, r, sigma, q)
         IN  IF d = "nonfinite" THEN Returned(Exact(0))
             ELSE IF d # "finite"
             THEN (IF caught(d) THEN Returned(Exact(0)) ELSE Raised(d))
             ELSE IF exp_overflows(q) \/ exp_overflows(r) THEN Raised("OverflowError")
             ELSE LET price == Formula("price", S, K, t, r, sigma, option_type, q)
                  IN  IF ~isfinite(price) THEN Returned(Exact(0)) ELSE Returned(price)

ZeroGreeks == [delta |-> Exact(0), gamma |-> Exact(0), theta |-> Exact(0), vega |-> Exact(0)]

\* The t <= 0 delta with >= and <= for > and <.
expiry_delta_inclusive(S, K, option_type) ==
    IF option_type = "Call"
    THEN (IF S.v >= K.v THEN Exact(1) ELSE Exact(0))
    ELSE (IF S.v <= K.v THEN Exact(0 - 1) ELSE Exact(0))

\* delta = 1.0 if S > K else 0.0 (Call); -1.0 if S < K else 0.0 (Put)
expiry_delta(S, K, option_type) ==
    IF option_type = "Call"
    THEN (IF S.v > K.v THEN Exact(1) ELSE Exact(0))
    ELSE (IF S.v < K.v THEN Exact(0 - 1) ELSE Exact(0))

\* theta holds r * K * exp(-r t) and q * S * exp(-q t): with r or q Big(1)
\* the product r * K or q * S is inf and inf * 0.0 is nan.
greeks_finite(r, q) == ~(r.cls = "big" \/ q.cls = "big")

calculate_greeks(S, K, t, r, sigma, option_type, q) ==
    IF ~(isfinite(S) /\ isfinite(K) /\ isfinite(t) /\ isfinite(r)
            /\ isfinite(sigma) /\ isfinite(q))
    THEN Returned(ZeroGreeks)
    ELSE IF t.v <= 0
    THEN Returned([ZeroGreeks EXCEPT !.delta = expiry_delta(S, K, option_type)])
    ELSE LET d == d1_d2(S, K, t, r, sigma, q)
         IN  IF d = "nonfinite" THEN Returned(ZeroGreeks)
             ELSE IF d # "finite"
             THEN (IF caught(d) THEN Returned(ZeroGreeks)
                   ELSE [raised |-> d, value |-> ZeroGreeks])
             ELSE IF exp_overflows(q) \/ exp_overflows(r)
             THEN [raised |-> "OverflowError", value |-> ZeroGreeks]
             ELSE IF ~greeks_finite(r, q) THEN Returned(ZeroGreeks)
             ELSE Returned([delta |-> Formula("delta", S, K, t, r, sigma, option_type, q),
                            gamma |-> Formula("gamma", S, K, t, r, sigma, option_type, q),
                            theta |-> Formula("theta", S, K, t, r, sigma, option_type, q),
                            vega |-> Formula("vega", S, K, t, r, sigma, option_type, q)])

\* --------------------------------------------------------- PayoffVisualizer
\* option_type: "Call", anything else is priced as a put
OptionTypes == {"Call", "Put"}

\* The options a simulator window is opened on: strike and premium in
\* dollars, rate and yield as black_scholes takes them. The days slider runs
\* from 0 to initial_days.
Options ==
    [strike : {40, 100}, option_type : OptionTypes, premium : {5},
     initial_days : {1}, risk_free_rate : {Fin(0)}, dividend_yield : {Fin(0)}]

\* Values of the volatility slider (percent, range 5..100) and of the price
\* slider (cents, range 100 * max(0, strike - 50) .. 100 * (strike + 50)):
\* the price slider's two ends and the strike.
VolValues == {20, 100}
PriceValues(opt) ==
    {100 * (IF opt.strike - HalfRange > 0 THEN opt.strike - HalfRange ELSE 0),
     100 * opt.strike, 100 * (opt.strike + HalfRange)}

\* np.linspace(max(0, strike - 50), strike + 50, 100), in units of
\* 1/(GridPoints - 1) dollar, in which every grid point is a whole number:
\* lo + i * (hi - lo) / 99 for i = 0..99.
linspace(strike) ==
    LET lo == IF strike - HalfRange > 0 THEN strike - HalfRange ELSE 0
        hi == strike + HalfRange
    IN  [i \in 1..GridPoints |-> lo * (GridPoints - 1) + (i - 1) * (hi - lo)]

\* A cache key that leaves the volatility out.
cache_key_without_sigma(days_left, selected_sigma, option_type) ==
    <<days_left, 0, option_type>>

\* cache_key = (days_left, self.selected_sigma, self.option_type)
cache_key(days_left, selected_sigma, option_type) ==
    <<days_left, selected_sigma, option_type>>

\* black_scholes at every point p of self.prices for t = days_left / 365 and
\* sigma = vol / 100 (handed over as days and percent).
grid_values(opt, grid, days_left, vol) ==
    [i \in 1..Len(grid) |->
        black_scholes(Fin(grid[i]), Fin(opt.strike * (GridPoints - 1)),
                      Fin(days_left), opt.risk_free_rate, Fin(vol), opt.option_type,
                      opt.dividend_yield)]

\* The curve without the premium taken off.
payoffs_without_premium(opt, grid, days_left, vol) ==
    [i \in 1..Len(grid) |-> grid_values(opt, grid, days_left, vol)[i].value]

\* if not np.isfinite(value): value = 0.0; payoffs.append(value - self.premium)
payoffs(opt, grid, days_left, vol) ==
    [i \in 1..Len(grid) |->
        LET value == grid_values(opt, grid, days_left, vol)[i].value
            finite == IF isfinite(value) THEN value ELSE Exact(0)
        IN  [finite EXCEPT !.v = @ - opt.premium * (GridPoints - 1)]]

\* np.log(selected_price / strike) for a price and a strike in cents, by its
\* sign: -inf at 0 (numpy warns, it does not raise), nan below 0.
log_moneyness(S, K) ==
    IF S = 0 THEN NegInf
    ELSE IF (S < 0) # (K < 0) THEN NaN
    ELSE IF S = K THEN Fin(0)
    ELSE IF (S > K) = (K > 0) THEN Fin(1) ELSE Fin(0 - 1)

\* d2 of the probability line for a volatility above 0 (the slider starts at
\* 5). With days_left = 0 both the drift term and sigma * np.sqrt(t) are 0.0
\* and the numpy division by 0.0 gives +-inf, or nan for 0.0 / 0.0; it does
\* not raise. With days_left > 0 an infinite logarithm stays infinite.
prob_d2(S, K, days_left) ==
    LET num == log_moneyness(S, K)
    IN  IF days_left = 0
        THEN (IF num.cls = "inf" THEN num
              ELSE IF num.cls = "nan" \/ num.v = 0 THEN NaN
              ELSE IF num.v > 0 THEN PosInf ELSE NegInf)
        ELSE (IF num.cls = "fin" THEN Fin(1) ELSE num)

\* The text after "Probability of Profit: ": norm.cdf(d2) for a Call and
\* norm.cdf(-d2) otherwise, 0.0 when that is not finite, "N/A" when the
\* Python division selected_price / strike raised ZeroDivisionError.
\* norm.cdf(inf) = 1.0, norm.cdf(-inf) = 0.0, norm.cdf(nan) = nan.
prob_profit(opt, days_left, price_value) ==
    LET K == 100 * opt.strike
        d2 == prob_d2(price_value, K, days_left)
        up == IF opt.option_type = "Call" THEN d2.v > 0 ELSE d2.v < 0
    IN  IF K = 0 THEN "N/A"
        ELSE IF d2.cls = "nan" THEN "0.00%"
        ELSE IF d2.cls = "inf" THEN (IF up THEN "100.00%" ELSE "0.00%")
        ELSE "Phi(d2)"

\* schedule_update that does not look at is_closing.
schedule_update_while_closing(closing, timer) ==
    IF ~timer.active THEN [active |-> TRUE, left |-> DebounceMs] ELSE timer

\* schedule_update: the timer after the call
schedule_update(closing, timer) ==
    IF ~closing /\ ~timer.active THEN [active |-> TRUE, left |-> DebounceMs] ELSE timer

\* -------------------------------------------------------------------- state
VARIABLES
    cash_balance,      \* MainWindow.cash_balance
    portfolio,         \* MainWindow.portfolio
    tab_cash_balance,  \* TradeSimulatorTab.cash_balance
    table_rows,        \* row count of TradeSimulatorTab.table
    dialog,            \* the open OrderPreviewDialog, or ClosedDialog
    ops,               \* order-placing events so far
    calls,             \* the OrderHandler calls made by the latest event
    refresh,           \* the load_portfolio run of the latest event
    ledger,            \* 100000 - executed buys + executed closes
    change,            \* the Remove Selected / Clear All run of the latest event
    option,            \* PayoffVisualizer: strike, option_type, premium, ...
    is_closing,        \* PayoffVisualizer.is_closing
    update_timer,      \* PayoffVisualizer.update_timer: active, ms left
    days_slider,       \* days_slider.value()
    price_slider,      \* price_slider.value()
    vol_slider,        \* vol_slider.value()
    canvas,            \* PayoffVisualizer.canvas and fig exist
    payoff_cache,      \* PayoffVisualizer.payoff_cache
    prices,            \* PayoffVisualizer.prices, the curve's grid
    quiet,             \* ms since the latest schedule_update call, up to 150
    changes,           \* slider changes so far
    run,               \* the latest _update_payoff_plot call and the call counts
    inputs,            \* the arguments handed to the pricing functions
    price_out,         \* what black_scholes did with them
    greeks_out         \* what calculate_greeks did with them

trading_vars == <<cash_balance, portfolio, tab_cash_balance, table_rows, dialog, ops,
                  calls, refresh, ledger, change>>
payoff_vars == <<option, is_closing, update_timer, days_slider, price_slider,
                 vol_slider, canvas, payoff_cache, prices, quiet, changes, run>>
pricing_vars == <<inputs, price_out, greeks_out>>
vars == <<trading_vars, payoff_vars, pricing_vars>>

NoRefresh ==
    [ran |-> FALSE, cash_before |-> 0, cash_after |-> 0,
     portfolio_before |-> <<>>, portfolio_after |-> <<>>]

Refreshed(cash, port, r) ==
    [ran |-> TRUE, cash_before |-> cash, cash_after |-> r.cash,
     portfolio_before |-> port, portfolio_after |-> r.portfolio]

NotCalled(zero) == [raised |-> "not called", value |-> zero]

\* seq: calls of _update_payoff_plot that got past the guard; skips: calls
\* that returned at it; then what the latest call past the guard read, used
\* and found, prob being the probability-of-profit label's text; stale: a
\* slider has changed since the latest call read the sliders; pending_at_close: closeEvent found the timer active;
\* late_changes: slider changes after closeEvent.
NoRun ==
    [seq |-> 0, skips |-> 0, key |-> <<0, 0, "">>, hit |-> FALSE, error |-> FALSE,
     curve |-> <<>>, quiet |-> 0, days |-> 0, vol |-> 0, price |-> 0, prob |-> "",
     stale |-> FALSE, pending_at_close |-> FALSE, late_changes |-> 0]

NoChange ==
    [op |-> "none", selected_rows |-> {}, confirmed |-> FALSE,
     cash_before |-> 0, portfolio_before |-> <<>>]

\* What the handler op found when it started.
Changed(op, selected_rows, confirmed, cash, port) ==
    [op |-> op, selected_rows |-> selected_rows, confirmed |-> confirmed,
     cash_before |-> cash, portfolio_before |-> port]

\* MainWindow.__init__ and TradeSimulatorTab.__init__
InitTrading ==
    /\ cash_balance = InitialCash
    /\ portfolio = <<>>
    /\ tab_cash_balance = InitialCash
    /\ table_rows = 0
    /\ dialog = ClosedDialog
    /\ ops = 0
    /\ calls = <<>>
    /\ refresh = NoRefresh
    /\ ledger = InitialCash
    /\ change = NoChange

\* No PayoffVisualizer has been constructed.
NoSimulator ==
    /\ option = [strike |-> 0, option_type |-> "Call", premium |-> 0, initial_days |-> 0]
    /\ is_closing = FALSE
    /\ update_timer = [active |-> FALSE, left |-> 0]
    /\ days_slider = 0
    /\ price_slider = 0
    /\ vol_slider = 0
    /\ canvas = FALSE
    /\ payoff_cache = <<>>
    /\ prices = <<>>
    /\ quiet = 0
    /\ changes = 0
    /\ run = NoRun

\* No pricing function has been called.
NoPricing ==
    /\ inputs = [S |-> Fin(0), K |-> Fin(0), t |-> Fin(0), r |-> Fin(0),
                 sigma |-> Fin(0), option_type |-> "Call", q |-> Fin(0)]
    /\ price_out = NotCalled(Exact(0))
    /\ greeks_out = NotCalled(ZeroGreeks)

\* The application after start-up: no order placed, no simulator window.
Init == InitTrading /\ NoSimulator /\ NoPricing

\* ------------------------------------------- OrderHandler driven directly
QuotesFor(trade) == IF is_option(trade) THEN OptionQuotes ELSE StockQuotes

api_place_buy_order ==
    /\ ops < MaxCalls
    /\ UNCHANGED <<payoff_vars, pricing_vars>>
    /\ \E trade \in Trades : \E quote \in QuotesFor(trade) : \E reply \in Replies :
         LET out == place_buy_order(cash_balance, portfolio, trade, quote, reply)
         IN  /\ cash_balance' = out.cash
             /\ portfolio' = out.portfolio
             /\ calls' = <<Call("buy", 0, trade, quote, reply, cash_balance, portfolio, out)>>
             /\ ledger' = IF out.ok THEN ledger - order_value(trade, quote) ELSE ledger
    /\ ops' = ops + 1
    /\ UNCHANGED <<tab_cash_balance, table_rows, dialog, refresh, change>>

api_close_position ==
    /\ ops < MaxCalls
    /\ UNCHANGED <<payoff_vars, pricing_vars>>
    /\ \E row \in 0..(Len(portfolio) - 1) :
         LET trade == portfolio[row + 1]
         IN  \E quote \in QuotesFor(trade) : \E reply \in Replies :
               LET out == close_position(cash_balance, portfolio, trade, quote, reply)
               IN  /\ cash_balance' = out.cash
                   /\ portfolio' = out.portfolio
                   /\ calls' = <<Call("close", row, trade, quote, reply,
                                       cash_balance, portfolio, out)>>
                   /\ ledger' = IF out.ok THEN ledger + order_value(trade, quote) ELSE ledger
    /\ ops' = ops + 1
    /\ UNCHANGED <<tab_cash_balance, table_rows, dialog, refresh, change>>

OrdersNext == api_place_buy_order \/ api_close_position

SpecOrders == Init /\ [][OrdersNext]_vars

\* ------------------------------------------------ the application's UI events
\* LookupTab.buy_stock up to dialog.exec(): the ticker, the quantity and the
\* preview quote are checked, then the preview dialog opens on the trade.
buy_stock ==
    /\ ~dialog.open
    /\ UNCHANGED <<payoff_vars, pricing_vars>>
    /\ \E tk \in TickerTexts : \E text \in QtyTexts : \E quote \in PreviewQuotes :
         dialog' = IF tk = "" \/ ~qty_valid(text) \/ quote.price <= 0
                   THEN ClosedDialog
                   ELSE update_total_cost(
                            [open |-> TRUE, market_price |-> quote.price,
                             quantity_text |-> str_int(int_val(text)),
                             limit_text |-> "", limit_price |-> {}])
    /\ calls' = <<>>
    /\ refresh' = NoRefresh
    /\ change' = NoChange
    /\ UNCHANGED <<cash_balance, portfolio, tab_cash_balance, table_rows, ops, ledger>>

\* quantity_edit.textChanged -> update_total_cost
edit_quantity ==
    /\ dialog.open
    /\ UNCHANGED <<payoff_vars, pricing_vars>>
    /\ \E text \in QtyTexts :
         dialog' = update_total_cost([dialog EXCEPT !.quantity_text = text])
    /\ UNCHANGED <<cash_balance, portfolio, tab_cash_balance, table_rows, ops,
                   calls, refresh, ledger, change>>

\* limit_price_edit.textChanged -> update_total_cost
edit_limit_price ==
    /\ dialog.open
    /\ UNCHANGED <<payoff_vars, pricing_vars>>
    /\ \E text \in LimitTexts :
         dialog' = update_total_cost([dialog EXCEPT !.limit_text = text])
    /\ UNCHANGED <<cash_balance, portfolio, tab_cash_balance, table_rows, ops,
                   calls, refresh, ledger, change>>

\* "Cancel": dialog.exec() returns Rejected
cancel_order ==
    /\ dialog.open
    /\ UNCHANGED <<payoff_vars, pricing_vars>>
    /\ dialog' = ClosedDialog
    /\ UNCHANGED <<cash_balance, portfolio, tab_cash_balance, table_rows, ops,
                   calls, refresh, ledger, change>>

\* Confirm Order with the order executed at the preview's price.
confirm_order_at_preview_price ==
    /\ dialog.open
    /\ UNCHANGED <<payoff_vars, pricing_vars>>
    /\ ops < MaxOps
    /\ dialog' = ClosedDialog
    /\ ops' = ops + 1
    /\ change' = NoChange
    /\ UNCHANGED tab_cash_balance
    /\ LET edited == get_edited_trade(dialog)
       IN  IF ~edited.valid
           THEN /\ calls' = <<>>
                /\ refresh' = NoRefresh
                /\ UNCHANGED <<cash_balance, portfolio, table_rows, ledger>>
           ELSE \E quote \in UIQuotes :
                  LET out == place_buy_order(cash_balance, portfolio, edited.trade,
                                             [quote EXCEPT !.price = dialog.market_price],
                                             "No")
                      r == load_portfolio(tab_cash_balance, out.cash, out.portfolio)
                  IN  /\ calls' = <<Call("buy", 0, edited.trade, quote, "No",
                                          cash_balance, portfolio, out)>>
                      /\ ledger' = IF out.ok THEN ledger - order_value(edited.trade, quote)
                                              ELSE ledger
                      /\ IF out.ok
                         THEN /\ cash_balance' = r.cash
                              /\ portfolio' = r.portfolio
                              /\ table_rows' = r.rows
                              /\ refresh' = Refreshed(out.cash, out.portfolio, r)
                         ELSE /\ cash_balance' = out.cash
                              /\ portfolio' = out.portfolio
                              /\ refresh' = NoRefresh
                              /\ UNCHANGED table_rows

\* "Confirm Order": the rest of buy_stock after dialog.exec() returned
\* Accepted: get_edited_trade, place_buy_order and, on success, load_portfolio.
confirm_order ==
    /\ dialog.open
    /\ UNCHANGED <<payoff_vars, pricing_vars>>
    /\ ops < MaxOps
    /\ dialog' = ClosedDialog
    /\ ops' = ops + 1
    /\ change' = NoChange
    /\ UNCHANGED tab_cash_balance
    /\ LET edited == get_edited_trade(dialog)
       IN  IF ~edited.valid
           THEN /\ calls' = <<>>
                /\ refresh' = NoRefresh
                /\ UNCHANGED <<cash_balance, portfolio, table_rows, ledger>>
           ELSE \E quote \in UIQuotes :
                  LET out == place_buy_order(cash_balance, portfolio, edited.trade, quote, "No")
                      r == load_portfolio(tab_cash_balance, out.cash, out.portfolio)
                  IN  /\ calls' = <<Call("buy", 0, edited.trade, quote, "No",
                                          cash_balance, portfolio, out)>>
                      /\ ledger' = IF out.ok THEN ledger - order_value(edited.trade, quote)
                                              ELSE ledger
                      /\ IF out.ok
                         THEN /\ cash_balance' = r.cash
                              /\ portfolio' = r.portfolio
                              /\ table_rows' = r.rows
                              /\ refresh' = Refreshed(out.cash, out.portfolio, r)
                         ELSE /\ cash_balance' = out.cash
                              /\ portfolio' = out.portfolio
                              /\ refresh' = NoRefresh
                              /\ UNCHANGED table_rows

\* TradeSimulatorTab.close_selected
close_selected ==
    /\ ~dialog.open
    /\ UNCHANGED <<payoff_vars, pricing_vars>>
    /\ ops < MaxOps
    /\ ops' = ops + 1
    /\ UNCHANGED <<tab_cash_balance, dialog>>
    /\ \E selected_rows \in SUBSET (0..(table_rows - 1)) :
         /\ change' = Changed("close", selected_rows, TRUE, cash_balance, portfolio)
         /\ IF selected_rows = {}
            THEN /\ calls' = <<>>
                 /\ refresh' = NoRefresh
                 /\ UNCHANGED <<cash_balance, portfolio, table_rows, ledger>>
            ELSE \E inp \in [selected_rows -> [quote : UIQuotes, reply : {"No"}]] :
                   LET done == close_rows(sorted_reverse(selected_rows), cash_balance,
                                          portfolio, inp, <<>>)
                       r == load_portfolio(tab_cash_balance, done.cash, done.portfolio)
                       RECURSIVE credited(_)
                       credited(log) ==
                           IF log = <<>> THEN 0
                           ELSE (IF Head(log).ok
                                 THEN order_value(Head(log).trade, Head(log).quote) ELSE 0)
                                + credited(Tail(log))
                   IN  /\ calls' = done.calls
                       /\ ledger' = ledger + credited(done.calls)
                       /\ cash_balance' = r.cash
                       /\ portfolio' = r.portfolio
                       /\ table_rows' = r.rows
                       /\ refresh' = Refreshed(done.cash, done.portfolio, r)

\* TradeSimulatorTab.remove_selected
remove_selected ==
    /\ ~dialog.open
    /\ UNCHANGED <<payoff_vars, pricing_vars>>
    /\ UNCHANGED <<tab_cash_balance, dialog, ops, ledger>>
    /\ calls' = <<>>
    /\ \E selected_rows \in SUBSET (0..(table_rows - 1)) :
         /\ change' = Changed("remove", selected_rows, TRUE, cash_balance, portfolio)
         /\ IF selected_rows = {}
            THEN /\ refresh' = NoRefresh
                 /\ UNCHANGED <<cash_balance, portfolio, table_rows>>
            ELSE LET left == remove_rows(sorted_reverse(selected_rows), portfolio)
                     r == load_portfolio(tab_cash_balance, cash_balance, left)
                 IN  /\ cash_balance' = r.cash
                     /\ portfolio' = r.portfolio
                     /\ table_rows' = r.rows
                     /\ refresh' = Refreshed(cash_balance, left, r)

\* Clear All that also pays the cleared positions' buy prices back.
clear_portfolio_refunds ==
    /\ ~dialog.open
    /\ UNCHANGED <<payoff_vars, pricing_vars>>
    /\ UNCHANGED <<tab_cash_balance, dialog, ops, ledger>>
    /\ calls' = <<>>
    /\ \E reply \in Replies :
         /\ change' = Changed("clear", {}, reply = "Yes", cash_balance, portfolio)
         /\ IF reply = "Yes"
            THEN LET r == load_portfolio(tab_cash_balance, cash_balance, <<>>)
                 IN  /\ cash_balance' = r.cash + Len(portfolio)
                     /\ portfolio' = r.portfolio
                     /\ table_rows' = r.rows
                     /\ refresh' = Refreshed(cash_balance, <<>>, r)
            ELSE /\ refresh' = NoRefresh
                 /\ UNCHANGED <<cash_balance, portfolio, table_rows>>

\* TradeSimulatorTab.clear_portfolio
clear_portfolio ==
    /\ ~dialog.open
    /\ UNCHANGED <<payoff_vars, pricing_vars>>
    /\ UNCHANGED <<tab_cash_balance, dialog, ops, ledger>>
    /\ calls' = <<>>
    /\ \E reply \in Replies :
         /\ change' = Changed("clear", {}, reply = "Yes", cash_balance, portfolio)
         /\ IF reply = "Yes"
            THEN LET r == load_portfolio(tab_cash_balance, cash_balance, <<>>)
                 IN  /\ cash_balance' = r.cash
                     /\ portfolio' = r.portfolio
                     /\ table_rows' = r.rows
                     /\ refresh' = Refreshed(cash_balance, <<>>, r)
            ELSE /\ refresh' = NoRefresh
                 /\ UNCHANGED <<cash_balance, portfolio, table_rows>>

Next ==
    \/ buy_stock
    \/ edit_quantity
    \/ edit_limit_price
    \/ cancel_order
    \/ confirm_order
    \/ close_selected
    \/ remove_selected
    \/ clear_portfolio

Spec == Init /\ [][Next]_vars

\* ------------------------------------------------- the simulator window
\* PayoffVisualizer.__init__ and _setup_ui, which ends with schedule_update()
InitPayoff ==
    /\ InitTrading
    /\ NoPricing
    /\ option \in Options
    /\ is_closing = FALSE
    /\ update_timer = schedule_update(FALSE, [active |-> FALSE, left |-> 0])
    /\ days_slider = option.initial_days
    /\ price_slider = 100 * option.strike
    /\ vol_slider = 20
    /\ canvas = TRUE
    /\ payoff_cache = <<>>
    /\ prices = linspace(option.strike)
    /\ quiet = 0
    /\ changes = 0
    /\ run = NoRun

\* A slider whose valueChanged is not connected to schedule_update.
value_changed_unconnected ==
    /\ changes < MaxChanges
    /\ changes' = changes + 1
    /\ UNCHANGED <<update_timer, quiet>>
    /\ run' = [run EXCEPT !.stale = TRUE,
                          !.late_changes = IF is_closing THEN @ + 1 ELSE @]
    /\ UNCHANGED <<trading_vars, pricing_vars, option, prices, is_closing, canvas,
                   payoff_cache>>

\* What every slider's valueChanged does after the value changed.
value_changed ==
    /\ changes < MaxChanges
    /\ changes' = changes + 1
    /\ update_timer' = schedule_update(is_closing, update_timer)
    /\ quiet' = 0
    /\ run' = [run EXCEPT !.stale = TRUE,
                          !.late_changes = IF is_closing THEN @ + 1 ELSE @]
    /\ UNCHANGED <<trading_vars, pricing_vars, option, prices, is_closing, canvas,
                   payoff_cache>>

days_changed ==
    /\ \E v \in (0..option.initial_days) \ {days_slider} : days_slider' = v
    /\ value_changed
    /\ UNCHANGED <<price_slider, vol_slider>>

price_changed ==
    /\ \E v \in PriceValues(option) \ {price_slider} : price_slider' = v
    /\ value_changed
    /\ UNCHANGED <<days_slider, vol_slider>>

vol_changed ==
    /\ \E v \in VolValues \ {vol_slider} : vol_slider' = v
    /\ value_changed
    /\ UNCHANGED <<days_slider, price_slider>>

\* Tick ms pass. A timer that is due fires before more time passes.
tick ==
    /\ ~(update_timer.active /\ update_timer.left = 0)
    /\ update_timer' = IF update_timer.active
                       THEN [update_timer EXCEPT
                                !.left = IF @ > Tick THEN @ - Tick ELSE 0]
                       ELSE update_timer
    /\ quiet' = IF quiet + Tick < DebounceMs THEN quiet + Tick ELSE DebounceMs
    /\ UNCHANGED <<trading_vars, pricing_vars, option, prices, is_closing, days_slider,
                   price_slider, vol_slider, canvas, payoff_cache, changes, run>>

\* A timer that is not single-shot: it starts again when it fires.
timeout_repeating ==
    /\ update_timer.active /\ update_timer.left = 0
    /\ update_timer' = [active |-> TRUE, left |-> DebounceMs]
    /\ IF is_closing \/ ~canvas
       THEN /\ run' = [run EXCEPT !.skips = @ + 1]
            /\ UNCHANGED payoff_cache
       ELSE LET key == cache_key(days_slider, vol_slider, option.option_type)
                hit == key \in DOMAIN payoff_cache
                raises == ~hit /\ \E i \in 1..Len(prices) :
                              grid_values(option, prices, days_slider, vol_slider)[i].raised # "none"
                curve == IF hit THEN payoff_cache[key]
                         ELSE IF raises THEN <<>>
                         ELSE payoffs(option, prices, days_slider, vol_slider)
            IN  /\ payoff_cache' = IF hit \/ raises THEN payoff_cache
                                   ELSE (key :> curve) @@ payoff_cache
                /\ run' = [run EXCEPT !.seq = @ + 1, !.stale = FALSE,
                                      !.key = key, !.hit = hit,
                                      !.error = raises, !.curve = curve,
                                      !.quiet = quiet, !.days = days_slider,
                                      !.vol = vol_slider, !.price = price_slider,
                                      !.prob = IF raises THEN @
                                               ELSE prob_profit(option, days_slider,
                                                                price_slider)]
    /\ UNCHANGED <<trading_vars, pricing_vars, option, prices, is_closing, days_slider,
                   price_slider, vol_slider, canvas, quiet, changes>>

\* update_timer.timeout -> _update_payoff_plot; the timer is single-shot.
timeout ==
    /\ update_timer.active /\ update_timer.left = 0
    /\ update_timer' = [active |-> FALSE, left |-> 0]
    /\ IF is_closing \/ ~canvas
       THEN /\ run' = [run EXCEPT !.skips = @ + 1]
            /\ UNCHANGED payoff_cache
       ELSE LET key == cache_key(days_slider, vol_slider, option.option_type)
                hit == key \in DOMAIN payoff_cache
                raises == ~hit /\ \E i \in 1..Len(prices) :
                              grid_values(option, prices, days_slider, vol_slider)[i].raised # "none"
                curve == IF hit THEN payoff_cache[key]
                         ELSE IF raises THEN <<>>
                         ELSE payoffs(option, prices, days_slider, vol_slider)
            IN  /\ payoff_cache' = IF hit \/ raises THEN payoff_cache
                                   ELSE (key :> curve) @@ payoff_cache
                /\ run' = [run EXCEPT !.seq = @ + 1, !.stale = FALSE,
                                      !.key = key, !.hit = hit,
                                      !.error = raises, !.curve = curve,
                                      !.quiet = quiet, !.days = days_slider,
                                      !.vol = vol_slider, !.price = price_slider,
                                      !.prob = IF raises THEN @
                                               ELSE prob_profit(option, days_slider,
                                                                price_slider)]
    /\ UNCHANGED <<trading_vars, pricing_vars, option, prices, is_closing, days_slider,
                   price_slider, vol_slider, canvas, quiet, changes>>

\* PayoffVisualizer.closeEvent
closeEvent ==
    /\ ~is_closing
    /\ is_closing' = TRUE
    /\ update_timer' = [active |-> FALSE, left |-> 0]
    /\ canvas' = FALSE
    /\ payoff_cache' = <<>>
    /\ run' = [run EXCEPT !.pending_at_close = update_timer.active]
    /\ UNCHANGED <<trading_vars, pricing_vars, option, prices, days_slider, price_slider,
                   vol_slider, quiet, changes>>

PayoffNext ==
    \/ days_changed
    \/ price_changed
    \/ vol_changed
    \/ tick
    \/ timeout
    \/ closeEvent

SpecPayoff == InitPayoff /\ [][PayoffNext]_vars

\* The window opened on one option; neither the timer nor the sliders look
\* at the option.
InitPayoffLive == InitPayoff /\ option.strike = 100 /\ option.option_type = "Call"

\* The window with time passing and Qt's event loop delivering every
\* timeout that is due.
SpecPayoffLive ==
    InitPayoffLive /\ [][PayoffNext]_vars /\ WF_vars(tick) /\ WF_vars(timeout)

\* ------------------------------------------- the pricing functions, called
\* Arguments the pricing functions are called with. Positive prices are at
\* least 2, so that Big(1) times a price overflows.
SpotValues == {NaN, Fin(0 - 5), Fin(0), Fin(90), Fin(100), Fin(110)}
StrikeValues == {PosInf, Fin(0), Fin(100)}
TimeValues == {NegInf, Fin(0 - 1), Fin(0), Fin(1)}
RateValues == {Fin(0), Big(1), Big(0 - 1)}
SigmaValues == {NaN, Fin(0 - 1), Fin(0), Fin(1), Big(1)}
YieldValues == {Fin(0), Big(1), Big(0 - 1)}

InitPricing ==
    /\ InitTrading
    /\ NoSimulator
    /\ inputs \in [S : SpotValues, K : StrikeValues, t : TimeValues, r : RateValues,
                    sigma : SigmaValues, option_type : OptionTypes, q : YieldValues]
    /\ price_out = NotCalled(Exact(0))
    /\ greeks_out = NotCalled(ZeroGreeks)

call_black_scholes ==
    /\ price_out.raised = "not called"
    /\ price_out' = black_scholes(inputs.S, inputs.K, inputs.t, inputs.r, inputs.sigma,
                                  inputs.option_type, inputs.q)
    /\ UNCHANGED <<trading_vars, payoff_vars, inputs, greeks_out>>

call_calculate_greeks ==
    /\ greeks_out.raised = "not called"
    /\ greeks_out' = calculate_greeks(inputs.S, inputs.K, inputs.t, inputs.r, inputs.sigma,
                                      inputs.option_type, inputs.q)
    /\ UNCHANGED <<trading_vars, payoff_vars, inputs, price_out>>

PricingNext == call_black_scholes \/ call_calculate_greeks

SpecPricing == InitPricing /\ [][PricingNext]_vars

\* ------------------------------------------------------------------- claims
\* The calls of the latest event, as a set of indices.
CallIds == 1..Len(calls)

\* What the order is worth, written out from the claim: quantity x multiplier
\* x price, multiplier 100 for options and 1 for equities.
Worth(c) ==
    (IF c.trade.qty_form = "missing" THEN 0 ELSE c.trade.quantity)
    * (IF c.trade.kind = "option" THEN 100 ELSE 1) * c.quote.price

Untouched(c) ==
    c.cash_after = c.cash_before /\ c.portfolio_after = c.portfolio_before

\* C1: money is never created or destroyed: the cash balance always equals
\* the initial 100000 minus the executed buys plus the executed closes.
C1_MoneyConserved == cash_balance = ledger

\* C2: every executed buy leaves the cash balance at the balance before the
\* call minus quantity x multiplier x execution price.
C2_BuyDebitsCost ==
    \A i \in CallIds :
        (calls[i].op = "buy" /\ calls[i].ok)
            => calls[i].cash_after = calls[i].cash_before - Worth(calls[i])

\* C2 witness: ten option contracts bought at 100 took 10 x 100 x 100.
C2_Witness ==
    \E i \in CallIds :
        /\ calls[i].op = "buy" /\ calls[i].ok
        /\ calls[i].trade.kind = "option" /\ calls[i].trade.quantity = 10
        /\ calls[i].quote.price = 100
        /\ calls[i].cash_before - calls[i].cash_after = 100000

\* C3: the display refresh (load_portfolio) leaves the cash balance, the
\* position sequence and every field of every position as they were.
C3_RefreshMutatesNothing ==
    refresh.ran => /\ refresh.cash_after = refresh.cash_before
                   /\ refresh.portfolio_after = refresh.portfolio_before

C5_BadQuantityRejected ==
    \A i \in CallIds :
        (/\ calls[i].op = "buy"
         /\ \/ calls[i].trade.qty_form = "missing"
            \/ calls[i].trade.qty_form = "int" /\ calls[i].trade.quantity <= 0)
            => ~calls[i].ok /\ Untouched(calls[i])

\* The buy got as far as the funds check: the price was usable, no question
\* box was declined and the cost could be computed.
ReachedFundsCheck(c) ==
    /\ c.op = "buy"
    /\ c.quote.price > 0
    /\ ~(c.prompted /\ c.reply = "No")
    /\ c.trade.qty_form # "bad"

\* C6: a buy costing more than the cash balance is rejected for insufficient
\* funds and changes nothing; one costing no more than the balance, the
\* balance itself included, passes the funds check and executes.
C6_FundsCheck ==
    \A i \in CallIds :
        ReachedFundsCheck(calls[i]) =>
            IF Worth(calls[i]) > calls[i].cash_before
            THEN /\ ~calls[i].ok
                 /\ calls[i].reason = "InsufficientFunds"
                 /\ Untouched(calls[i])
            ELSE calls[i].ok

\* C6 witness: a buy costing exactly the whole balance executed and left 0.
C6_Witness ==
    \E i \in CallIds :
        /\ ReachedFundsCheck(calls[i]) /\ calls[i].ok
        /\ Worth(calls[i]) = calls[i].cash_before
        /\ calls[i].cash_after = 0

\* C7: a buy or close quoted at a non-positive price is rejected as
\* PriceUnavailable and changes neither cash nor positions.
C7_NoPriceRejected ==
    \A i \in CallIds :
        calls[i].quote.price <= 0
            => /\ ~calls[i].ok
               /\ calls[i].reason = "PriceUnavailable"
               /\ Untouched(calls[i])

\* C8: an option order, buy or close, whose low-liquidity question was
\* answered No returns False as UserCancelled with the cash balance and the
\* number of positions unchanged.
C8_DeclinedOverride ==
    \A i \in CallIds :
        (/\ calls[i].trade.kind = "option"
         /\ calls[i].quote.vol < 10 \/ calls[i].quote.oi < 50
         /\ calls[i].prompted
         /\ calls[i].reply = "No")
            => /\ ~calls[i].ok
               /\ calls[i].reason = "UserCancelled"
               /\ calls[i].cash_after = calls[i].cash_before
               /\ Len(calls[i].portfolio_after) = Len(calls[i].portfolio_before)

\* C8 witness: the close of a held option was declined at the question box.
C8_Witness ==
    \E i \in CallIds :
        /\ calls[i].op = "close" /\ calls[i].trade.kind = "option"
        /\ calls[i].prompted /\ calls[i].reply = "No" /\ ~calls[i].ok
        /\ calls[i].quote.price > 0

\* The sequence without its element at 0-based index row.
WithoutRow(port, row) == SubSeq(port, 1, row) \o SubSeq(port, row + 2, Len(port))

\* C9: an executed close credits quantity x multiplier x sell price and
\* removes exactly the closed position, shortening the portfolio by one.
C9_CloseCreditsAndRemoves ==
    \A i \in CallIds :
        (calls[i].op = "close" /\ calls[i].ok)
            => /\ calls[i].cash_after = calls[i].cash_before + Worth(calls[i])
               /\ Len(calls[i].portfolio_after) = Len(calls[i].portfolio_before) - 1
               /\ calls[i].portfolio_after
                      = WithoutRow(calls[i].portfolio_before, calls[i].row)

\* The limit-price field holds text that is not a positive number.
InvalidLimitText(d) ==
    d.limit_text # "" /\ (d.limit_text \notin {"7"})

\* C10: confirming the preview while its limit-price field is invalid never
\* leads to an executed order.
C10_InvalidLimitRejected ==
    [][(dialog.open /\ InvalidLimitText(dialog) /\ ~dialog'.open)
            => (calls' = <<>> \/ ~calls'[1].ok)]_vars

\* The positions of port whose 0-based index is not in sel, in port's order.
Unselected(port, sel) ==
    LET kept == {i \in 1..Len(port) : (i - 1) \notin sel}
    IN  [k \in 1..Cardinality(kept) |->
            port[CHOOSE i \in kept : Cardinality({j \in kept : j <= i}) = k]]

\* C11: Remove Selected leaves exactly the positions whose original indices
\* were not selected, in their original order; an index outside the
\* portfolio removes nothing.
C11_RemoveLeavesUnselected ==
    change.op = "remove"
        => portfolio = Unselected(change.portfolio_before, change.selected_rows)

\* C11 witness: rows 0 and 2 of three positions were removed and the one
\* position left is the original row 1, which differs from row 0.
C11_Witness ==
    /\ change.op = "remove"
    /\ change.selected_rows = {0, 2}
    /\ Len(change.portfolio_before) = 3
    /\ change.portfolio_before[2] # change.portfolio_before[1]
    /\ portfolio = <<change.portfolio_before[2]>>

\* C12: Clear All, when confirmed, empties the positions and leaves the cash
\* balance as it was before the call; when declined it changes nothing.
C12_ClearKeepsCash ==
    change.op = "clear"
        => /\ cash_balance = change.cash_before
           /\ portfolio = IF change.confirmed THEN <<>> ELSE change.portfolio_before

\* C12 witness: a confirmed Clear All emptied a portfolio holding a bought
\* position and the balance is the one the call found.
C12_Witness ==
    /\ change.op = "clear" /\ change.confirmed
    /\ Len(change.portfolio_before) >= 1
    /\ ledger < 100000
    /\ portfolio = <<>>
    /\ cash_balance = change.cash_before

\* C13: a recompute runs only when 150 ms have passed since the most recent
\* schedule_update call, every call having reset the timer.
C13_RunsAfterQuiescence == run.seq > 0 => run.quiet >= 150

\* C14: from closeEvent on the cache stays empty, no timer is active, the
\* canvas is gone, and no call of _update_payoff_plot gets past its guard, so
\* nothing is computed or drawn, whatever schedule_update calls follow.
C14_ClosedDoesNothing ==
    [][is_closing' => /\ payoff_cache' = <<>>
                      /\ ~update_timer'.active
                      /\ ~canvas'
                      /\ is_closing => run'.seq = run.seq]_vars

\* C14 witness: the window was closed while a recompute was pending, a
\* slider changed afterwards and 150 ms later still nothing is scheduled or
\* cached, the one recompute on record being from before.
C14_Witness ==
    /\ is_closing
    /\ run.pending_at_close
    /\ run.late_changes >= 1
    /\ quiet = 150
    /\ ~update_timer.active
    /\ payoff_cache = <<>>
    /\ run.seq = 1 /\ run.skips = 0

\* C15: while the window is open a stored curve is never changed or
\* dropped, and every recompute uses the curve stored under its key, which
\* is the curve a fresh computation for the sliders' values gives.
C15_CacheIdempotent ==
    [][/\ ~is_closing' =>
             \A k \in DOMAIN payoff_cache :
                 k \in DOMAIN payoff_cache' /\ payoff_cache'[k] = payoff_cache[k]
       /\ run'.seq # run.seq =>
             /\ run'.key = <<days_slider, vol_slider, option.option_type>>
             /\ run'.hit = (run'.key \in DOMAIN payoff_cache)
             /\ run'.curve = payoff_cache'[run'.key]
             /\ run'.curve = payoffs(option, prices, days_slider, vol_slider)]_vars

\* C15 witness: a recompute found its key in a cache of two curves and used
\* the stored curve.
C15_Witness ==
    /\ ~is_closing
    /\ run.hit
    /\ Cardinality(DOMAIN payoff_cache) = 2
    /\ run.curve = payoff_cache[run.key]

\* C16: two different keys in the cache never hold the same curve.
C16_DistinctKeysDistinctCurves ==
    \A k1 \in DOMAIN payoff_cache : \A k2 \in DOMAIN payoff_cache :
        k1 # k2 => payoff_cache[k1] # payoff_cache[k2]

\* The float is neither nan nor an infinity.
Finite(x) == x.cls \notin {"nan", "inf"}

\* The float compares <= 0 (nan compares false, -inf true).
NotPositive(x) == IF x.cls = "nan" THEN FALSE ELSE x.v <= 0

PriceCalled == price_out.raised # "not called"
GreeksCalled == greeks_out.raised # "not called"

\* S - K when positive, else 0, as a returned number.
PositivePart(n) == [cls |-> "fin", v |-> IF n > 0 THEN n ELSE 0, of |-> <<>>]

IntrinsicReturned ==
    /\ price_out.raised = "none"
    /\ price_out.value = IF inputs.option_type = "Call"
                         THEN PositivePart(inputs.S.v - inputs.K.v)
                         ELSE PositivePart(inputs.K.v - inputs.S.v)

\* C17 as stated: for finite S, K, r, sigma, q and every t <= 0 black_scholes
\* returns exactly max(0, S - K) for a Call and max(0, K - S) for a Put.
C17_IntrinsicForEveryT ==
    (/\ PriceCalled
     /\ Finite(inputs.S) /\ Finite(inputs.K) /\ Finite(inputs.r)
     /\ Finite(inputs.sigma) /\ Finite(inputs.q)
     /\ NotPositive(inputs.t))
        => IntrinsicReturned

\* C17 as amended: the same for every finite t <= 0, whatever r, sigma, q.
C17_IntrinsicForFiniteT ==
    (/\ PriceCalled
     /\ Finite(inputs.S) /\ Finite(inputs.K) /\ Finite(inputs.r)
     /\ Finite(inputs.sigma) /\ Finite(inputs.q)
     /\ Finite(inputs.t) /\ NotPositive(inputs.t))
        => IntrinsicReturned

\* C17 witness: a Put struck at 100 on a spot of 90 with t = -1 returned 10
\* although sigma and r are too large for the closed formula.
C17_Witness ==
    /\ PriceCalled
    /\ inputs.option_type = "Put" /\ inputs.S = Fin(90) /\ inputs.K = Fin(100)
    /\ inputs.t = Fin(0 - 1) /\ inputs.sigma = Big(1) /\ inputs.r = Big(1)
    /\ price_out.value = PositivePart(10)

\* sigma <= 0, S <= 0 or an argument that is not finite.
Degenerate(i) ==
    \/ NotPositive(i.sigma)
    \/ NotPositive(i.S)
    \/ \E x \in {i.S, i.K, i.t, i.r, i.sigma, i.q} : ~Finite(x)

AllZero(g) == \A name \in {"delta", "gamma", "theta", "vega"} : g[name] = PositivePart(0)

\* C18: whatever black_scholes and calculate_greeks return is finite, and
\* for a degenerate input (sigma <= 0, S <= 0, a non-finite argument) it is
\* the zero default.
C18_FiniteAndZeroDefaults ==
    /\ price_out.raised = "none"
          => /\ Finite(price_out.value)
             /\ Degenerate(inputs) => price_out.value = PositivePart(0)
    /\ greeks_out.raised = "none"
          => /\ \A name \in {"delta", "gamma", "theta", "vega"} :
                    Finite(greeks_out.value[name])
             /\ Degenerate(inputs) => AllZero(greeks_out.value)

\* C19: black_scholes and calculate_greeks never raise.
C19_NeverRaises ==
    /\ PriceCalled => price_out.raised = "none"
    /\ GreeksCalled => greeks_out.raised = "none"

\* C20: for finite inputs with t <= 0 calculate_greeks returns gamma = theta
\* = vega = 0 and delta 1 for a Call with S > K, -1 for a Put with S < K,
\* 0 otherwise.
C20_GreeksAtExpiry ==
    (/\ GreeksCalled
     /\ \A x \in {inputs.S, inputs.K, inputs.t, inputs.r, inputs.sigma, inputs.q} : Finite(x)
     /\ NotPositive(inputs.t))
        => /\ greeks_out.raised = "none"
           /\ \A name \in {"gamma", "theta", "vega"} :
                  greeks_out.value[name] = PositivePart(0)
           /\ greeks_out.value.delta.of = <<>>
           /\ greeks_out.value.delta.v =
                  IF inputs.option_type = "Call" /\ inputs.S.v > inputs.K.v THEN 1
                  ELSE IF inputs.option_type = "Put" /\ inputs.S.v < inputs.K.v THEN 0 - 1
                  ELSE 0

\* C20 witness: an at-the-money Call at t = 0 got delta 0.
C20_Witness ==
    /\ GreeksCalled
    /\ inputs.option_type = "Call" /\ inputs.S = Fin(100) /\ inputs.K = Fin(100)
    /\ inputs.t = Fin(0)
    /\ greeks_out.value.delta = PositivePart(0)

\* C21: on the buy path and on the close path alike the quote's price is
\* checked before the liquidity check: an order quoted at a non-positive
\* price is rejected as PriceUnavailable with no low-liquidity question
\* having been put to the caller.
C21_PriceCheckedBeforePrompt ==
    \A i \in CallIds :
        calls[i].quote.price <= 0
            => ~calls[i].prompted /\ calls[i].reason = "PriceUnavailable"

\* The order is for an option whose volume is below 10 or whose open
\* interest is below 50.
ThinOption(c) == c.trade.kind = "option" /\ (c.quote.vol < 10 \/ c.quote.oi < 50)

\* C22 as stated: the low-liquidity question is put exactly when the order is
\* for an option with volume < 10 or open interest < 50.
C22_PromptExactlyWhenThin ==
    \A i \in CallIds : calls[i].prompted <=> ThinOption(calls[i])

\* C22 as amended: for an order quoted at a positive price the question is
\* put exactly when the order is for an option with volume < 10 or open
\* interest < 50 (10 and 50 themselves pass), and an equity order is never
\* asked, whatever its volume and price.
C22_PromptWhenThinAndPriced ==
    \A i \in CallIds :
        /\ calls[i].quote.price > 0 => (calls[i].prompted <=> ThinOption(calls[i]))
        /\ calls[i].trade.kind = "stock" => ~calls[i].prompted

\* C22 witness: an option with volume 10 and open interest 50 was bought at a
\* positive price and no question was put.
C22_Witness ==
    \E i \in CallIds :
        /\ calls[i].op = "buy" /\ calls[i].trade.kind = "option"
        /\ calls[i].quote.vol = 10 /\ calls[i].quote.oi = 50 /\ calls[i].quote.price > 0
        /\ ~calls[i].prompted /\ calls[i].ok

\* C23: whenever d2 is not finite (days to expiry 0, or simulated spot 0)
\* the simulator reports a probability of profit of 0, never 100% and never
\* an error.
C23_ProbabilityZeroOnNonFiniteD2 ==
    (run.seq > 0 /\ ~run.error /\ (run.days = 0 \/ run.price = 0))
        => run.prob = "0.00%"

\* The grid of the claim in units of 1/99 dollar: 100 evenly spaced points
\* from max(0, strike - 50) to strike + 50.
ClaimedGrid ==
    LET lo == IF option.strike > 50 THEN option.strike - 50 ELSE 0
        hi == option.strike + 50
    IN  [i \in 1..100 |-> 99 * lo + (i - 1) * (hi - lo)]

\* black_scholes(p, strike, days / 365, r, volatility, kind, q) minus the
\* entry premium, a non-finite price counting as 0.
ClaimedValue(p, days, vol) ==
    LET out == black_scholes(Fin(p), Fin(99 * option.strike), Fin(days),
                             option.risk_free_rate, Fin(vol), option.option_type,
                             option.dividend_yield)
        price == IF out.value.cls \in {"nan", "inf"} THEN PositivePart(0) ELSE out.value
    IN  [cls |-> price.cls, v |-> price.v - 99 * option.premium, of |-> price.of]

\* C24: a recompute that misses the cache stores, under the key (days,
\* volatility, kind), a curve with exactly one value per point of the
\* 100-point grid from max(0, strike - 50) to strike + 50, the value at grid
\* point p being black_scholes(p, ...) minus the premium; and the grid is the
\* same before and after every step.
C24_MissStoresCurveOnGrid ==
    [][/\ prices' = prices
       /\ prices = ClaimedGrid
       /\ (run'.seq # run.seq /\ ~run'.hit) =>
             /\ run'.key = <<days_slider, vol_slider, option.option_type>>
             /\ run'.key \notin DOMAIN payoff_cache
             /\ Len(payoff_cache'[run'.key]) = 100
             /\ \A i \in 1..100 :
                    payoff_cache'[run'.key][i]
                        = ClaimedValue(ClaimedGrid[i], days_slider, vol_slider)]_vars

\* C24 witness: a Put struck at 40 was computed for 0 days on the grid from 0
\* to 90: 35 dollars at spot 0, minus the premium of 5 at spot 90, and a
\* curve for 1 day is stored beside it.
C24_Witness ==
    /\ option.strike = 40 /\ option.option_type = "Put"
    /\ run.seq > 0 /\ ~run.hit /\ run.days = 0
    /\ prices[1] = 0 /\ prices[100] = 99 * 90
    /\ run.key \in DOMAIN payoff_cache
    /\ Len(payoff_cache[run.key]) = 100
    /\ payoff_cache[run.key][1] = PositivePart(99 * 35)
    /\ payoff_cache[run.key][100].v = 0 - 99 * 5
    /\ \E k \in DOMAIN payoff_cache : k[1] = 1 /\ payoff_cache[k][100].of # <<>>

\* C25: the cash balance is never negative, whatever buys, closes, removals,
\* clears and refreshes were made from the initial 100000.
C25_CashNeverNegative == cash_balance >= 0

\* The selected rows whose close was rejected.
RejectedRows == {calls[i].row : i \in {j \in CallIds : ~calls[j].ok}}

\* C26: Close Selected closes each selected row's own position, once, and no
\* other: close_position is called once per selected row with the position
\* that row held when the button was pressed, and afterwards the portfolio
\* holds exactly the unselected positions and the selected ones whose close
\* was rejected, in their original order.
C26_CloseSelectedClosesExactlySelected ==
    change.op = "close"
        => /\ Len(calls) = Cardinality(change.selected_rows)
           /\ \A i \in CallIds :
                  /\ calls[i].row \in change.selected_rows
                  /\ calls[i].trade = change.portfolio_before[calls[i].row + 1]
                  /\ \A j \in CallIds : calls[j].row = calls[i].row => j = i
           /\ portfolio = Unselected(change.portfolio_before,
                                     change.selected_rows \ RejectedRows)

\* C27: while the window is not closing, every slider change is eventually
\* followed by a recompute that reads the sliders after the change; and once
\* no change is unread, what was last rendered is the sliders' present
\* values.
C27_EveryChangeEventuallyRead ==
    /\ (run.stale /\ ~is_closing) ~> (~run.stale \/ is_closing)
    /\ [](~run.stale /\ run.seq > 0 /\ ~run.error /\ ~is_closing
             => /\ run.days = days_slider
                /\ run.vol = vol_slider
                /\ run.price = price_slider)

\* C27 witness: two sliders were moved while the timer was running, the
\* second less than 150 ms before it fired, and the one recompute that
\* followed read both new values.
C27_Witness ==
    /\ ~is_closing /\ ~run.stale
    /\ changes = 2 /\ run.seq = 1 /\ run.quiet < 150
    /\ run.days = days_slider /\ days_slider # option.initial_days
    /\ run.vol = vol_slider /\ vol_slider # 20

\* The timer is due and the step is its timeout: no slider moves and the
\* window is not closed in this step.
Expires ==
    /\ update_timer.active /\ update_timer.left = 0
    /\ changes' = changes /\ is_closing' = is_closing

\* C28: at most one recompute is pending: a slider change that finds the
\* timer active leaves it as it is; _update_payoff_plot is called exactly once
\* per expiry and at no other time, after which nothing is pending; and a
\* call reads the sliders' values of the moment it runs.
C28_OnePendingRecompute ==
    [][/\ (update_timer.active /\ changes' # changes) => update_timer' = update_timer
       /\ run'.seq + run'.skips = run.seq + run.skips + (IF Expires THEN 1 ELSE 0)
       /\ Expires => ~update_timer'.active
       /\ run'.seq # run.seq =>
             /\ run'.days = days_slider
             /\ run'.vol = vol_slider
             /\ run'.price = price_slider]_vars

\* C28 witness: the price slider was moved 100 ms after the timer had been
\* started; the timer fired once, 50 ms later, nothing is pending, and the
\* recompute used the moved slider's value.
C28_Witness ==
    /\ ~is_closing /\ ~update_timer.active
    /\ changes = 1 /\ run.seq = 1 /\ run.skips = 0 /\ run.quiet = 50
    /\ price_slider # 100 * option.strike
    /\ run.price = price_slider

\* C29: an executed buy uses the one quote place_buy_order fetched after the
\* preview was confirmed: that quote's price is positive, the cost at it is
\* within the balance, it is what is debited and what the position records
\* as buy_price; the preview's quote, where it differs, is neither.
C29_ExecutedAtOrderQuote ==
    [][(dialog.open /\ ~dialog'.open /\ calls' # <<>> /\ calls'[1].ok)
          => LET c == calls'[1]
                 cost == c.trade.quantity * c.quote.price
                 bought == c.portfolio_after[Len(c.portfolio_after)]
             IN  /\ Len(calls') = 1 /\ c.op = "buy"
                 /\ c.quote.price > 0
                 /\ cost <= c.cash_before
                 /\ c.cash_before - c.cash_after = cost
                 /\ bought.buy_price = {c.quote.price}
                 /\ dialog.market_price # c.quote.price
                       => /\ bought.buy_price # {dialog.market_price}
                          /\ c.cash_before - c.cash_after
                                 # c.trade.quantity * dialog.market_price]_vars

\* C29 witness: 1000 shares previewed at 99 were bought at the order's quote of
\* 100: 100000 was debited and 100 recorded.
C29_Witness ==
    /\ Len(calls) = 1
    /\ calls[1].op = "buy" /\ calls[1].ok
    /\ calls[1].trade.quantity = 1000 /\ calls[1].quote.price = 100
    /\ calls[1].cash_before - calls[1].cash_after = 100000
    /\ portfolio[Len(portfolio)].buy_price = {100}

\* The call as place_buy_order would have handled it without a limit price.
WithoutLimit(c) ==
    place_buy_order(c.cash_before, c.portfolio_before,
                    [c.trade EXCEPT !.limit_price = {}], c.quote, c.reply)

\* C30: a limit price is only recorded on the position: the order is accepted
\* or rejected as the same order without a limit price would be at the same
\* quote, and an executed one debits quantity x multiplier x quoted price,
\* also when the limit price is below the quote.
C30_LimitPriceOnlyRecorded ==
    \A i \in CallIds :
        calls[i].op = "buy"
            => /\ calls[i].ok = WithoutLimit(calls[i]).ok
               /\ calls[i].reason = WithoutLimit(calls[i]).reason
               /\ calls[i].cash_after = WithoutLimit(calls[i]).cash
               /\ calls[i].ok =>
                     /\ calls[i].cash_before - calls[i].cash_after = Worth(calls[i])
                     /\ calls[i].portfolio_after[Len(calls[i].portfolio_after)].limit_price
                            = calls[i].trade.limit_price

\* C30 witness: one share with a limit price of 7 was bought at the quote of
\* 100: 100 was debited and the position records the limit of 7.
C30_Witness ==
    \E i \in CallIds :
        /\ calls[i].op = "buy" /\ calls[i].ok
        /\ calls[i].trade.limit_price = {7} /\ calls[i].trade.quantity = 1
        /\ calls[i].quote.price = 100
        /\ calls[i].cash_before - calls[i].cash_after = 100
        /\ calls[i].portfolio_after[Len(calls[i].portfolio_after)].limit_price = {7}

====
